---- MODULE Spec2Model ----
(***************************************************************************)
(* E-Learning API (src/server.js): an Express application whose route      *)
(* handlers are async functions over three mongoose collections (User,     *)
(* Course, Enrollment) and one module-level cached connection handle.      *)
(*                                                                         *)
(* A request occupies a slot.  Every `await` of a handler is a point where *)
(* the handler is suspended and another request may run, so a handler is   *)
(* modelled as one step per awaited operation:                             *)
(*    idle -> [connect ->] first database operation -> ... -> done -> idle *)
(* The database executes one operation atomically.                         *)
(*                                                                         *)
(* Fields no handler reads or writes after creation (User.name apart from  *)
(* populate, Course.description, Course.price, Enrollment.enrolledAt) are  *)
(* left out of the records.  Ids are the positions of the documents in     *)
(* their collection: documents are never deleted.  The unique index the    *)
(* schema declares on User.email is taken to exist in the database.        *)
(***************************************************************************)
EXTENDS Integers, Sequences, FiniteSets, TLC

\* ---- bounds of the model ------------------------------------------------
\* Enrollments stored under SpecEnroll and SpecSeq.
MaxEnrollments == 2
\* Courses stored under SpecCourses.
MaxCourses == 2
\* Milliseconds the clock advances.
MaxClock == 1
\* Records stored, all collections together, under Spec.
MaxRecords == 2
\* Enrollments stored under SpecProgress.
MaxPatched == 1

\* ---- values ---------------------------------------------------------------
\* Two requests may be in progress at once.
Slots == {1, 2}

Null == "null"
Handle == "mongoose"

\* A malformed ObjectId string, and the well-formed ids clients send.
BadId == 0
Ids == {1, 2}
IdArgs == Ids \cup {BadId}
ProgressVals == {0, 50}
\* An omitted or empty string.
Absent == ""
Emails == {"a@x", "b@x"}
Roles == {"student", "instructor"}
NoPatch == <<>>

VARIABLES
  uri,          \* process.env.MONGODB_URI is set
  conn,         \* the cached handle of line 44
  assigns,      \* history: how many times line 52 has assigned conn
  users,        \* the User collection, in insertion order
  courses,      \* the Course collection, in insertion order
  enrollments,  \* the Enrollment collection, in insertion order
  clock,        \* Date.now(), in milliseconds
  req,          \* per slot: the request being handled and where its handler is
  createdAfter, \* history, per Course: how many Courses were stored when it was constructed
  lastPatch     \* history, per Enrollment: the progress of the last PATCH applied to it

vars == <<uri, conn, assigns, users, courses, enrollments, clock, req, createdAfter, lastPatch>>
store == <<users, courses, enrollments>>
hist == <<createdAfter, lastPatch>>

\* ---- requests and responses ----------------------------------------------
NoArgs == [none |-> 0]
Idle == [kind |-> "idle", pc |-> "idle", args |-> NoArgs, status |-> 0, msg |-> "", body |-> <<>>]

Pending(kind, args, pc) ==
  [kind |-> kind, pc |-> pc, args |-> args, status |-> 0, msg |-> "", body |-> <<>>]

\* res.status(status).json(...): msg is the message or error text, body the
\* records sent (<<>> for none or null).
Reply(kind, args, status, msg, body) ==
  [kind |-> kind, pc |-> "done", args |-> args, status |-> status, msg |-> msg, body |-> body]

\* The status each handler's catch block answers with.
CatchStatus(kind) ==
  IF kind \in {"register", "createCourse", "enroll", "patch"} THEN 400 ELSE 500

\* The first awaited database operation of each handler, after connectDB.
FirstOp(kind) ==
  CASE kind = "register" -> "save"
    [] kind = "listUsers" -> "find"
    [] kind = "getUser" -> "findById"
    [] kind = "listCourses" -> "find"
    [] kind = "getCourse" -> "findById"
    [] kind = "createCourse" -> "save"
    [] kind = "enroll" -> "findOne"
    [] kind = "myCourses" -> "find"
    [] kind = "patch" -> "findByIdAndUpdate"

At(r, kind, pc) == req[r].kind = kind /\ req[r].pc = pc

\* ---- connectDB -------------------------------------------------------------
\* The synchronous part of a connectDB call: the cached handle is returned,
\* the missing connection string throws, or mongoose.connect is called.
connectDB ==
  IF conn # Null THEN "cached"
  ELSE IF ~uri THEN "throw"
  ELSE "attempt"

\* A catch block that caches a handle although the attempt was rejected.
connCachedOnReject == Handle

\* What the catch block of connectDB leaves in conn when the attempt is rejected.
connAfterReject == conn

\* The handler goes on after connectDB up to its first awaited database
\* operation.  new Course(...).save() stamps createdAt (timestamps: true) from
\* the clock before the insert is sent.
Issue(kind, args) ==
  Pending(kind,
          IF kind = "createCourse"
          THEN [args EXCEPT !.createdAt = clock, !.seen = Len(courses)]
          ELSE args,
          FirstOp(kind))

\* A request arrives and its handler runs up to its first suspension.
Begin(r, kind, args) ==
  /\ req[r].pc = "idle"
  /\ req' = [req EXCEPT ![r] =
       CASE connectDB = "cached" -> Issue(kind, args)
         [] connectDB = "throw" -> Reply(kind, args, CatchStatus(kind), "MONGODB_URI not set", <<>>)
         [] connectDB = "attempt" -> Pending(kind, args, "connect")]
  /\ UNCHANGED <<uri, conn, assigns, store, clock, hist>>

\* mongoose.connect resolves: line 52 assigns conn and the handler goes on.
ConnectOk(r) ==
  /\ req[r].pc = "connect"
  /\ conn' = Handle
  /\ assigns' = assigns + 1
  /\ req' = [req EXCEPT ![r] = Issue(req[r].kind, req[r].args)]
  /\ UNCHANGED <<uri, store, clock, hist>>

\* mongoose.connect rejects: connectDB rethrows and the handler's catch answers.
ConnectFail(r) ==
  /\ req[r].pc = "connect"
  /\ conn' = connAfterReject
  /\ req' = [req EXCEPT ![r] =
       Reply(req[r].kind, req[r].args, CatchStatus(req[r].kind), "connect failed", <<>>)]
  /\ UNCHANGED <<uri, assigns, store, clock, hist>>

\* The response has been sent; the slot is free for the next request.
Finish(r) ==
  /\ req[r].pc = "done"
  /\ req' = [req EXCEPT ![r] = Idle]
  /\ UNCHANGED <<uri, conn, assigns, store, clock, hist>>

\* ---- Enrollment ------------------------------------------------------------
\* new Enrollment({student, course}): progress defaults to 0.
NewEnrollment(id, studentId, courseId) ==
  [id |-> id, student |-> studentId, course |-> courseId, progress |-> 0]

\* A filter that leaves the course out.
MatchStudentOnly(e, studentId, courseId) == e.student = studentId

\* The filter { student: studentId, course: courseId }.
MatchPair(e, studentId, courseId) == e.student = studentId /\ e.course = courseId

\* Enrollment.findOne(filter): the first matching document, <<>> for null.
FindOne(studentId, courseId) ==
  LET hits == SelectSeq(enrollments, LAMBDA e : MatchPair(e, studentId, courseId))
  IN  IF hits = <<>> THEN <<>> ELSE <<Head(hits)>>

\* Documents of a collection with the given _id (at most one).
ById(coll, id) == SelectSeq(coll, LAMBDA d : d.id = id)

\* .populate(path): the referenced document, <<>> (null) when there is none.
Populate(coll, id) == ById(coll, id)

InFlight(kind) == Cardinality({r \in Slots : req[r].kind = kind /\ req[r].pc \notin {"idle", "done"}})

\* POST /api/enroll arrives.
StartEnroll(r, room) ==
  \E s \in IdArgs, c \in Ids :
    /\ room \/ FindOne(s, c) # <<>>
    /\ Begin(r, "enroll", [studentId |-> s, courseId |-> c])

\* line 133 resolves, lines 134-136 run up to the await of save().
EnrollFindOne(r) ==
  /\ At(r, "enroll", "findOne")
  /\ LET a == req[r].args IN
     req' = [req EXCEPT ![r] =
       IF a.studentId = BadId \/ a.courseId = BadId
       THEN Reply("enroll", a, 400, "Cast to ObjectId failed", <<>>)
       ELSE IF FindOne(a.studentId, a.courseId) # <<>>
       THEN Reply("enroll", a, 400, "Already enrolled", <<>>)
       ELSE Pending("enroll", a, "save")]
  /\ UNCHANGED <<uri, conn, assigns, store, clock, hist>>

\* A unique index on (student, course) would refuse the insert of a second
\* document for the pair.
PairIndexed(studentId, courseId) == FindOne(studentId, courseId) # <<>>

\* enrollmentSchema declares no index: the database refuses no insert.
PairTaken(studentId, courseId) == FALSE

\* line 136 resolves: the document is inserted, line 137 answers.
EnrollSave(r) ==
  /\ At(r, "enroll", "save")
  /\ LET a == req[r].args
         e == NewEnrollment(Len(enrollments) + 1, a.studentId, a.courseId)
     IN  IF PairTaken(a.studentId, a.courseId)
         THEN /\ req' = [req EXCEPT ![r] = Reply("enroll", a, 400, "E11000 duplicate key", <<>>)]
              /\ UNCHANGED <<enrollments, lastPatch>>
         ELSE /\ enrollments' = Append(enrollments, e)
              /\ lastPatch' = Append(lastPatch, NoPatch)
              /\ req' = [req EXCEPT ![r] = Reply("enroll", a, 201, "Enrolled!", <<e>>)]
  /\ UNCHANGED <<uri, conn, assigns, users, courses, clock, createdAfter>>

\* GET /api/my-courses/:studentId arrives.
StartMyCourses(r) ==
  \E s \in IdArgs : Begin(r, "myCourses", [studentId |-> s])

\* Enrollment.find({ student }).populate('course') as sent by res.json.
MyCourses(studentId) ==
  LET mine == SelectSeq(enrollments, LAMBDA e : e.student = studentId)
  IN  [i \in 1..Len(mine) |->
        [id |-> mine[i].id, student |-> mine[i].student, progress |-> mine[i].progress,
         course |-> Populate(courses, mine[i].course)]]

MyCoursesFind(r) ==
  /\ At(r, "myCourses", "find")
  /\ LET a == req[r].args IN
     req' = [req EXCEPT ![r] =
       IF a.studentId = BadId
       THEN Reply("myCourses", a, 500, "Cast to ObjectId failed", <<>>)
       ELSE Reply("myCourses", a, 200, "", MyCourses(a.studentId))]
  /\ UNCHANGED <<uri, conn, assigns, store, clock, hist>>

\* PATCH /api/enrollments/:id arrives.
StartPatch(r) ==
  \E id \in 0..MaxEnrollments, p \in ProgressVals :
    Begin(r, "patch", [id |-> id, progress |-> p])

\* An update with upsert: a document is inserted when none has the id.
UpdateProgressUpsert(id, progress) ==
  IF \E i \in 1..Len(enrollments) : enrollments[i].id = id
  THEN [i \in 1..Len(enrollments) |->
         IF enrollments[i].id = id
         THEN [enrollments[i] EXCEPT !.progress = progress]
         ELSE enrollments[i]]
  ELSE Append(enrollments, [id |-> id, student |-> BadId, course |-> BadId, progress |-> progress])

\* An update that replaces the document by the update instead of setting
\* the field.
UpdateProgressReplace(id, progress) ==
  [i \in 1..Len(enrollments) |->
    IF enrollments[i].id = id
    THEN [id |-> id, student |-> BadId, course |-> BadId, progress |-> progress]
    ELSE enrollments[i]]

\* The collection after findByIdAndUpdate(id, { progress }).
UpdateProgress(id, progress) ==
  [i \in 1..Len(enrollments) |->
    IF enrollments[i].id = id
    THEN [enrollments[i] EXCEPT !.progress = progress]
    ELSE enrollments[i]]

\* What findByIdAndUpdate resolves to without { new: true }: the document
\* before the update.
UpdatedBefore(id, progress) == ById(enrollments, id)

\* What findByIdAndUpdate resolves to with { new: true }: the document after
\* the update, <<>> (null) when no document has the id.
Updated(id, progress) == ById(UpdateProgress(id, progress), id)

PatchUpdate(r) ==
  /\ At(r, "patch", "findByIdAndUpdate")
  /\ LET a == req[r].args IN
     IF a.id = BadId
     THEN /\ req' = [req EXCEPT ![r] = Reply("patch", a, 400, "Cast to ObjectId failed", <<>>)]
          /\ UNCHANGED <<enrollments, lastPatch>>
     ELSE /\ enrollments' = UpdateProgress(a.id, a.progress)
          /\ req' = [req EXCEPT ![r] = Reply("patch", a, 200, "", Updated(a.id, a.progress))]
          /\ lastPatch' = [i \in 1..Len(lastPatch) |-> IF i = a.id THEN <<a.progress>> ELSE lastPatch[i]]
  /\ UNCHANGED <<uri, conn, assigns, users, courses, clock, createdAfter>>

\* ---- User -------------------------------------------------------------------
\* userSchema validation: email is required, role is one of the enum.
ValidUser(a) == a.email # Absent /\ (a.role = Absent \/ a.role \in Roles)

\* new User(req.body): role defaults to 'student'.
NewUser(id, a) ==
  [id |-> id, name |-> a.name, email |-> a.email,
   role |-> IF a.role = Absent THEN "student" ELSE a.role]

\* A schema without the unique index refuses no insert.
EmailNotIndexed(email) == FALSE

\* The unique index on email refuses the insert of a second document with it.
EmailTaken(email) == \E i \in 1..Len(users) : users[i].email = email

\* POST /api/register arrives.
StartRegister(r, room) ==
  \E email \in Emails \cup {Absent}, role \in {Absent, "instructor", "admin"} :
    /\ room \/ email = Absent \/ EmailTaken(email)
    /\ Begin(r, "register", [name |-> "Ann", email |-> email, role |-> role])

\* line 73 resolves: validation, then the insert under the unique index.
RegisterSave(r) ==
  /\ At(r, "register", "save")
  /\ LET a == req[r].args
         u == NewUser(Len(users) + 1, a)
     IN  IF ~ValidUser(a)
         THEN /\ req' = [req EXCEPT ![r] = Reply("register", a, 400, "User validation failed", <<>>)]
              /\ UNCHANGED users
         ELSE IF EmailTaken(a.email)
         THEN /\ req' = [req EXCEPT ![r] = Reply("register", a, 400, "E11000 duplicate key", <<>>)]
              /\ UNCHANGED users
         ELSE /\ users' = Append(users, u)
              /\ req' = [req EXCEPT ![r] = Reply("register", a, 201, "Registered", <<u>>)]
  /\ UNCHANGED <<uri, conn, assigns, courses, enrollments, clock, hist>>

\* GET /api/users arrives.
StartListUsers(r) == Begin(r, "listUsers", NoArgs)

ListUsersFind(r) ==
  /\ At(r, "listUsers", "find")
  /\ req' = [req EXCEPT ![r] = Reply("listUsers", NoArgs, 200, "", users)]
  /\ UNCHANGED <<uri, conn, assigns, store, clock, hist>>

\* GET /api/users/:id arrives.
StartGetUser(r) == \E id \in IdArgs : Begin(r, "getUser", [id |-> id])

GetUserFindById(r) ==
  /\ At(r, "getUser", "findById")
  /\ LET a == req[r].args IN
     req' = [req EXCEPT ![r] =
       IF a.id = BadId THEN Reply("getUser", a, 500, "Cast to ObjectId failed", <<>>)
       ELSE IF ById(users, a.id) = <<>> THEN Reply("getUser", a, 404, "User not found", <<>>)
       ELSE Reply("getUser", a, 200, "", ById(users, a.id))]
  /\ UNCHANGED <<uri, conn, assigns, store, clock, hist>>

\* ---- Course -----------------------------------------------------------------
\* A schema whose published defaults to true.
PublishedByDefault(p) == p # "false"

\* courseSchema: published is a Boolean that defaults to false.
StoredPublished(p) == IF p = "omitted" THEN FALSE ELSE p = "true"

\* new Course({ ...req.body, instructor: req.body.instructorId }).
NewCourse(id, a) ==
  [id |-> id, title |-> a.title, instructor |-> a.instructorId,
   published |-> StoredPublished(a.published), createdAt |-> a.createdAt]

\* courseSchema validation: title is required.
ValidCourse(a) == a.title # Absent

\* POST /api/courses arrives.
StartCreateCourse(r, room) ==
  \E title \in {"T", Absent}, pub \in {"omitted", "true", "false"} :
    /\ room \/ title = Absent
    /\ title = Absent => pub = "omitted"
    /\ Begin(r, "createCourse",
             [title |-> title, published |-> pub, instructorId |-> 1, createdAt |-> 0, seen |-> 0])

\* line 123 resolves: validation, then the insert.
CreateCourseSave(r) ==
  /\ At(r, "createCourse", "save")
  /\ LET a == req[r].args
         c == NewCourse(Len(courses) + 1, a)
     IN  IF ~ValidCourse(a)
         THEN /\ req' = [req EXCEPT ![r] = Reply("createCourse", a, 400, "Course validation failed", <<>>)]
              /\ UNCHANGED <<courses, createdAfter>>
         ELSE /\ courses' = Append(courses, c)
              /\ createdAfter' = Append(createdAfter, a.seen)
              /\ req' = [req EXCEPT ![r] = Reply("createCourse", a, 201, "", <<c>>)]
  /\ UNCHANGED <<uri, conn, assigns, users, enrollments, clock, lastPatch>>

\* The filter { published: true }.
IsPublished(c) == c.published

\* .populate('instructor', 'name'): the course with its instructor reference
\* replaced by the instructor's id and name, <<>> (null) when there is none.
WithInstructor(c) ==
  [c EXCEPT !.instructor =
     LET u == Populate(users, c.instructor)
     IN  IF u = <<>> THEN <<>> ELSE <<[id |-> u[1].id, name |-> u[1].name]>>]

\* The key of .sort({ createdAt: -1 }): list l is in descending order of it.
SortedDesc(l) == \A i, j \in 1..Len(l) : i < j => l[i].createdAt >= l[j].createdAt

\* Course.find({ published: true }).populate(...).sort({ createdAt: -1 }):
\* every order of the published courses the sort allows (documents with
\* equal createdAt come in an order the database does not specify).
ListPublished ==
  LET pub == {i \in 1..Len(courses) : IsPublished(courses[i])}
      n == Cardinality(pub)
  IN  {l \in {[i \in 1..n |-> WithInstructor(courses[f[i]])] :
                f \in {g \in [1..n -> pub] : \A i, j \in 1..n : i # j => g[i] # g[j]}} :
        SortedDesc(l)}

\* GET /api/courses arrives.
StartListCourses(r) == Begin(r, "listCourses", NoArgs)

ListCoursesFind(r) ==
  /\ At(r, "listCourses", "find")
  /\ \E l \in ListPublished :
       req' = [req EXCEPT ![r] = Reply("listCourses", NoArgs, 200, "", l)]
  /\ UNCHANGED <<uri, conn, assigns, store, clock, hist>>

\* GET /api/courses/:id arrives.
StartGetCourse(r) == \E id \in IdArgs : Begin(r, "getCourse", [id |-> id])

GetCourseFindById(r) ==
  /\ At(r, "getCourse", "findById")
  /\ LET a == req[r].args
         found == ById(courses, a.id)
     IN  req' = [req EXCEPT ![r] =
           IF a.id = BadId THEN Reply("getCourse", a, 500, "Cast to ObjectId failed", <<>>)
           ELSE IF found = <<>> \/ ~found[1].published
           THEN Reply("getCourse", a, 404, "Not found", <<>>)
           ELSE Reply("getCourse", a, 200, "", <<WithInstructor(found[1])>>)]
  /\ UNCHANGED <<uri, conn, assigns, store, clock, hist>>

\* ---- root and clock ------------------------------------------------------------
\* GET /: answers at once, without connectDB.
Root(r) ==
  /\ req[r].pc = "idle"
  /\ req' = [req EXCEPT ![r] = Reply("root", NoArgs, 200, "E-Learning API Ready!", <<>>)]
  /\ UNCHANGED <<uri, conn, assigns, store, clock, hist>>

\* A millisecond passes.
Tick ==
  /\ clock < MaxClock
  /\ clock' = clock + 1
  /\ UNCHANGED <<uri, conn, assigns, store, req, hist>>

\* ---- specifications --------------------------------------------------------
Init ==
  /\ uri \in BOOLEAN
  /\ conn = Null
  /\ assigns = 0
  /\ users = <<>>
  /\ courses = <<>>
  /\ enrollments = <<>>
  /\ clock = 0
  /\ req = [r \in Slots |-> Idle]
  /\ createdAfter = <<>>
  /\ lastPatch = <<>>

\* Guards that keep the collections within the bounds: a request that would
\* add a record is let in only while there is room for it.
Creating == InFlight("register") + InFlight("createCourse") + InFlight("enroll")
EnrollRoom == Len(enrollments) + InFlight("enroll") < MaxEnrollments
CourseRoom == Len(courses) + InFlight("createCourse") < MaxCourses
PatchRoom == Len(enrollments) + InFlight("enroll") < MaxPatched
AnyRoom == Len(users) + Len(courses) + Len(enrollments) + Creating < MaxRecords

Connect(r) == ConnectOk(r) \/ ConnectFail(r) \/ Finish(r)

\* POST /api/enroll requests overlapping freely.
NextEnroll ==
  \E r \in Slots :
    \/ StartEnroll(r, EnrollRoom)
    \/ EnrollFindOne(r)
    \/ EnrollSave(r)
    \/ Connect(r)

SpecEnroll == Init /\ [][NextEnroll]_vars

\* The enrollment endpoints, requests overlapping freely.
NextProgress ==
  \E r \in Slots :
    \/ StartEnroll(r, PatchRoom)
    \/ EnrollFindOne(r)
    \/ EnrollSave(r)
    \/ StartMyCourses(r)
    \/ MyCoursesFind(r)
    \/ StartPatch(r)
    \/ PatchUpdate(r)
    \/ Connect(r)

SpecProgress == Init /\ [][NextProgress]_vars

\* The enrollment endpoints, each request running to completion before the
\* next one starts.
NextSeq ==
  \/ StartEnroll(1, EnrollRoom)
  \/ EnrollFindOne(1)
  \/ EnrollSave(1)
  \/ StartMyCourses(1)
  \/ MyCoursesFind(1)
  \/ StartPatch(1)
  \/ PatchUpdate(1)
  \/ Connect(1)

SpecSeq == Init /\ [][NextSeq]_vars

\* The course endpoints.
NextCourses ==
  \/ Tick
  \/ \E r \in Slots :
       \/ StartCreateCourse(r, CourseRoom)
       \/ CreateCourseSave(r)
       \/ StartListCourses(r)
       \/ ListCoursesFind(r)
       \/ StartGetCourse(r)
       \/ GetCourseFindById(r)
       \/ Connect(r)

SpecCourses == Init /\ [][NextCourses]_vars

\* The user endpoints.
NextUsers ==
  \E r \in Slots :
    \/ StartRegister(r, TRUE)
    \/ RegisterSave(r)
    \/ StartListUsers(r)
    \/ ListUsersFind(r)
    \/ StartGetUser(r)
    \/ GetUserFindById(r)
    \/ Connect(r)

SpecUsers == Init /\ [][NextUsers]_vars

\* Every endpoint, each request running to completion before the next one
\* starts.
Next ==
  \/ Tick
  \/ \E r \in {1} :
       \/ Root(r)
       \/ StartRegister(r, AnyRoom)
       \/ RegisterSave(r)
       \/ StartListUsers(r)
       \/ ListUsersFind(r)
       \/ StartGetUser(r)
       \/ GetUserFindById(r)
       \/ StartCreateCourse(r, AnyRoom)
       \/ CreateCourseSave(r)
       \/ StartListCourses(r)
       \/ ListCoursesFind(r)
       \/ StartGetCourse(r)
       \/ GetCourseFindById(r)
       \/ StartEnroll(r, AnyRoom)
       \/ EnrollFindOne(r)
       \/ EnrollSave(r)
       \/ StartMyCourses(r)
       \/ MyCoursesFind(r)
       \/ StartPatch(r)
       \/ PatchUpdate(r)
       \/ Connect(r)

Spec == Init /\ [][Next]_vars

\* ---- properties ------------------------------------------------------------
\* Slot r's handler takes the step that ends its wait at pc.
Step(r, kind, pc) == At(r, kind, pc) /\ req'[r].pc # pc
Done(r, kind) == At(r, kind, "done")

PairCount(s, c) ==
  Cardinality({i \in 1..Len(enrollments) : enrollments[i].student = s /\ enrollments[i].course = c})

C1_AtMostOne == \A s \in Ids, c \in Ids : PairCount(s, c) <= 1

C1_Step ==
  \A r \in Slots :
    LET a == req[r].args IN
    /\ Step(r, "enroll", "findOne") /\ a.studentId # BadId /\ a.courseId # BadId =>
         /\ UNCHANGED enrollments
         /\ IF PairCount(a.studentId, a.courseId) = 0
            THEN req'[r].pc = "save"
            ELSE req'[r].pc = "done" /\ req'[r].status = 400 /\ req'[r].msg = "Already enrolled"
    /\ Step(r, "enroll", "save") =>
         /\ PairCount(a.studentId, a.courseId) = 0
         /\ enrollments' = Append(enrollments, req'[r].body[1])
         /\ req'[r].pc = "done" /\ req'[r].status = 201
         /\ req'[r].body[1].student = a.studentId /\ req'[r].body[1].course = a.courseId

\* C1: with POST /api/enroll requests handled one after another, a request
\* that gets past connectDB with well-formed ids creates the Enrollment and
\* answers 201 when the pair has none, and answers 400 'Already enrolled'
\* and inserts nothing when it has one; no pair ever has two Enrollments.
C1_SequentialEnroll == []C1_AtMostOne /\ [][C1_Step]_vars

\* A second request for a pair has been refused and the pair has its one Enrollment.
C1_Witness ==
  /\ Done(1, "enroll") /\ req[1].status = 400 /\ req[1].msg = "Already enrolled"
  /\ PairCount(req[1].args.studentId, req[1].args.courseId) = 1

EmailCount(email) == Cardinality({i \in 1..Len(users) : users[i].email = email})

C2_Unique == \A email \in Emails : EmailCount(email) <= 1

C2_Step ==
  \A r \in Slots :
    Step(r, "register", "save") /\ EmailCount(req[r].args.email) > 0 =>
      /\ UNCHANGED users
      /\ req'[r].pc = "done" /\ req'[r].status = 400

\* C2: under any interleaving of POST /api/register requests no two stored
\* Users have the same email, and a request whose email a stored User has
\* answers 400 and stores nothing.
C2_UniqueEmail == []C2_Unique /\ [][C2_Step]_vars

\* Two overlapping requests with one email: one answered 201, the other 400,
\* and one User has the email.
C2_Witness ==
  /\ Done(1, "register") /\ Done(2, "register")
  /\ req[1].args.email = req[2].args.email
  /\ req[1].status = 201 /\ req[2].status = 400
  /\ EmailCount(req[1].args.email) = 1

InBody(body, id) == \E k \in 1..Len(body) : body[k].id = id

C3_Step ==
  \A r \in Slots :
    /\ Step(r, "listCourses", "find") =>
         /\ req'[r].status = 200
         /\ \A i \in 1..Len(courses) :
              InBody(req'[r].body, courses[i].id) <=> courses[i].published
    /\ Step(r, "getCourse", "findById") =>
         \A i \in 1..Len(courses) :
           courses[i].id = req[r].args.id =>
             IF courses[i].published
             THEN req'[r].status = 200 /\ InBody(req'[r].body, courses[i].id)
             ELSE req'[r].status = 404 /\ req'[r].body = <<>>
    /\ Step(r, "createCourse", "save") /\ req'[r].status = 201 /\ req[r].args.published = "omitted" =>
         /\ Len(courses') = Len(courses) + 1
         /\ courses'[Len(courses')].published = FALSE

\* C3: once past connectDB, GET /api/courses lists a stored Course if and
\* only if it is published, GET /api/courses/:id answers 200 with it if it
\* is published and 404 if it is not, and a Course created with 'published'
\* omitted is stored unpublished.
C3_PublishedOnly == [][C3_Step]_vars

\* A stored Course created with 'published' omitted has been asked for by id
\* and answered 404 while a list answered without it.
C3_Witness ==
  /\ Done(1, "getCourse") /\ req[1].status = 404
  /\ ById(courses, req[1].args.id) # <<>>
  /\ Done(2, "listCourses") /\ req[2].status = 200
  /\ ~InBody(req[2].body, req[1].args.id)

\* C4: in the list GET /api/courses answers with, a Course y constructed
\* after the POST of a Course x had stored x comes before x.
C4_NewestFirst ==
  \A r \in Slots :
    Done(r, "listCourses") /\ req[r].status = 200 =>
      \A i, j \in 1..Len(req[r].body) :
        req[r].body[i].id <= createdAfter[req[r].body[j].id] => j < i

C5_Step ==
  \A r \in Slots :
    /\ Step(r, "patch", "findByIdAndUpdate") =>
         \A i \in 1..Len(enrollments) :
           enrollments[i].id = req[r].args.id =>
             /\ req'[r].status = 200
             /\ req'[r].body = <<[enrollments[i] EXCEPT !.progress = req[r].args.progress]>>
    /\ Step(r, "myCourses", "find") =>
         \A i \in 1..Len(enrollments) :
           enrollments[i].student = req[r].args.studentId /\ lastPatch[i] # NoPatch =>
             /\ req'[r].status = 200
             /\ \E k \in 1..Len(req'[r].body) :
                  /\ req'[r].body[k].id = enrollments[i].id
                  /\ req'[r].body[k].progress = lastPatch[i][1]

\* C5: a PATCH on a stored Enrollment answers with the record as updated,
\* and GET /api/my-courses/:studentId returns every Enrollment of the student
\* with the progress of the last PATCH applied to it.
C5_PatchThenRead == [][C5_Step]_vars

\* A list answered with an Enrollment at the progress a PATCH gave it.
C5_Witness ==
  \E r \in Slots :
    /\ Done(r, "myCourses") /\ req[r].status = 200
    /\ \E k \in 1..Len(req[r].body) :
         /\ req[r].body[k].progress = 50
         /\ lastPatch[req[r].body[k].id] = <<50>>

C6_Step ==
  \A r \in Slots :
    Step(r, "patch", "findByIdAndUpdate") /\ req[r].args.id # BadId
      /\ (\A i \in 1..Len(enrollments) : enrollments[i].id # req[r].args.id) =>
         /\ req'[r].pc = "done" /\ req'[r].status = 200 /\ req'[r].body = <<>>
         /\ enrollments' = enrollments

\* C6: a PATCH whose well-formed id no stored Enrollment has answers 200
\* with a null body and leaves the collection as it was.
C6_PatchMissing == [][C6_Step]_vars

\* A PATCH for an id nobody has was answered 200 with a null body while an
\* Enrollment is stored.
C6_Witness ==
  \E r \in Slots :
    /\ Done(r, "patch") /\ req[r].status = 200 /\ req[r].body = <<>>
    /\ req[r].args.id # BadId
    /\ enrollments # <<>>

C7_Step ==
  \A r \in Slots :
    Step(r, "enroll", "save") =>
      /\ req'[r].status = 201
      /\ enrollments' = Append(enrollments, req'[r].body[1])
      /\ req'[r].body[1].student = req[r].args.studentId
      /\ req'[r].body[1].course = req[r].args.courseId

\* C7: a POST /api/enroll that has passed its existence check inserts and
\* answers 201 whatever has been stored since, so two overlapping requests
\* for one pair both insert.
C7_CheckThenInsert == [][C7_Step]_vars

\* Two requests for one pair were both answered 201 and the pair has two Enrollments.
C7_Witness ==
  /\ Done(1, "enroll") /\ Done(2, "enroll")
  /\ req[1].status = 201 /\ req[2].status = 201
  /\ req[1].args = req[2].args
  /\ PairCount(req[1].args.studentId, req[1].args.courseId) = 2

C8_Step ==
  /\ conn # Null => conn' = conn
  /\ \A r \in Slots :
       /\ req[r].pc = "idle" /\ req'[r].pc # "idle" /\ req'[r].kind # "root" =>
            /\ conn' = conn
            /\ conn # Null => req'[r].pc = FirstOp(req'[r].kind)
            /\ conn = Null /\ ~uri =>
                 req'[r].pc = "done" /\ req'[r].status = CatchStatus(req'[r].kind)
            /\ conn = Null /\ uri => req'[r].pc = "connect"
       /\ req[r].pc = "connect" /\ req'[r].pc = "done" =>
            /\ conn' = conn
            /\ req'[r].status = CatchStatus(req[r].kind)
       /\ req[r].pc = "connect" /\ req'[r].pc \notin {"connect", "done"} =>
            conn' = Handle

\* C8: a connectDB call that fails (no connection string, or a rejected
\* attempt) leaves conn as it was and the handler answers with its error
\* status; a call made while conn is null and the string is set starts an
\* attempt; once conn is set it stays set and a call returns it with no attempt.
C8_CacheOnSuccess == [][C8_Step]_vars

\* After a rejected attempt conn is still null and another call is attempting.
C8_Witness ==
  /\ conn = Null
  /\ Done(1, "listUsers") /\ req[1].msg = "connect failed"
  /\ req[2].pc = "connect"

\* C9: at most one connection attempt is in progress at a time and conn is
\* assigned at most once.
C9_SingleAttempt ==
  /\ Cardinality({r \in Slots : req[r].pc = "connect"}) <= 1
  /\ assigns <= 1

GetKinds == {"root", "listUsers", "getUser", "listCourses", "getCourse", "myCourses"}

Grown(old, new) == new = old \/ (Len(new) = Len(old) + 1 /\ SubSeq(new, 1, Len(old)) = old)

C10_Step ==
  /\ Grown(users, users') /\ Grown(courses, courses')
  /\ Len(enrollments') \in {Len(enrollments), Len(enrollments) + 1}
  /\ Len(users') + Len(courses') + Len(enrollments')
       <= Len(users) + Len(courses) + Len(enrollments) + 1
  /\ \A i \in 1..Len(enrollments) :
       /\ [enrollments'[i] EXCEPT !.progress = 0] = [enrollments[i] EXCEPT !.progress = 0]
       /\ enrollments'[i].progress # enrollments[i].progress =>
            \E r \in Slots : Step(r, "patch", "findByIdAndUpdate") /\ req[r].args.id = enrollments[i].id
  /\ users' # users => \E r \in Slots : Step(r, "register", "save")
  /\ courses' # courses => \E r \in Slots : Step(r, "createCourse", "save")
  /\ Len(enrollments') # Len(enrollments) => \E r \in Slots : Step(r, "enroll", "save")
  /\ (\E r \in Slots : req'[r] # req[r] /\ (req[r].kind \in GetKinds \/ req'[r].kind \in GetKinds)) =>
       store' = store

\* C10: a step adds at most one record, by the POST handler of its
\* collection, or overwrites the progress of the Enrollment a PATCH names;
\* no record is removed, no other field of a stored record changes, and no
\* step of a GET handler changes the store.
C10_Frame == [][C10_Step]_vars

\* A Course is stored, an Enrollment's progress has been overwritten, and a
\* list has been answered.
C10_Witness ==
  /\ courses # <<>>
  /\ \E i \in 1..Len(enrollments) : enrollments[i].progress = 50
  /\ Done(1, "myCourses") /\ req[1].status = 200

====
